---- MODULE Spec2Model ----
(***************************************************************************)
(* The rate limiter of cogs/rate_limit.py (RateLimitManager and the        *)
(* RateLimit cog around it) and the /ask handler of cogs/qa.py.            *)
(*                                                                         *)
(* The program is one asyncio event loop: a coroutine runs without         *)
(* interruption from one await that suspends to the next.  Every action    *)
(* below is one such uninterrupted segment.  The suspension points are the *)
(* calls of the durable store (aiosqlite) and the wait for a user's        *)
(* asyncio.Lock that is taken.  Time is counted in whole seconds.          *)
(***************************************************************************)
EXTENDS Integers, Sequences, FiniteSets, TLC

\* ---- bounds of the model ------------------------------------------------
NumUsers == 2
NumTasks == 2
MaxTicks == 2
MaxOps == 3
\* RATE_LIMIT_PER_MINUTE and RATE_LIMIT_PER_HOUR of the environment
minute_limit == 1
hour_limit == 2

\* ---- constants of the program -------------------------------------------
MinuteWindow == 60
HourWindow == 3600

\* the amounts by which the clock advances between two segments
TimeSteps == {59, 60, 3540}

Users == 1..NumUsers
Tasks == 1..NumTasks

VARIABLES
  now,              \* time.time()
  minute_requests,  \* RateLimitManager.minute_requests: user -> deque
  minute_keys,      \* the keys present in the defaultdict minute_requests
  hour_requests,    \* RateLimitManager.hour_requests: user -> deque
  locks,            \* RateLimitManager.locks: user -> asyncio.Lock
  db,               \* the rows (user_id, request_time) of table rate_limits
  task,             \* the running command handlers (coroutines)
  nticks, nops,     \* how often the clock advanced and a command was started
  lost,             \* users one of whose requests is in no durable record
  reset_clean       \* users reset and with no record_request completed since

vars == <<now, minute_requests, minute_keys, hour_requests, locks, db, task,
          nticks, nops, lost, reset_clean>>

\* ---- values ---------------------------------------------------------------
NoResult ==
  [kind |-> "none", reason |-> "", retry_after |-> 0,
   minute_count |-> 0, hour_count |-> 0]

\* check_rate_limit returns None
Admitted == [NoResult EXCEPT !.kind = "admit"]

\* record_request and reset_user_limits return normally
Returned == [NoResult EXCEPT !.kind = "ok"]

\* an exception of the durable store leaves the operation
Raised == [NoResult EXCEPT !.kind = "raise"]

RateLimitError(retry_after, limit_type) ==
  [NoResult EXCEPT !.kind = "reject", !.reason = limit_type,
                   !.retry_after = retry_after]

StatsResult(m, h) ==
  [NoResult EXCEPT !.kind = "stats", !.minute_count = Len(m),
                   !.hour_count = Len(h)]

IdleTask ==
  [pc |-> "idle", cmd |-> "none", op |-> "none", uid |-> 1,
   current_time |-> 0, result |-> NoResult, admitted |-> FALSE]

UnlockedLock == [locked |-> FALSE, waiters |-> <<>>]

\* ---- the deques and the store ----------------------------------------------
\* variants of PopWhile: the oldest entry stays until it is older than the
\* cutoff; and "if" for "while"
RECURSIVE PopWhileOlder(_, _)
PopWhileOlder(s, cutoff) ==
  IF s # <<>> /\ Head(s) < cutoff THEN PopWhileOlder(Tail(s), cutoff) ELSE s

\* variant of PopWhile: nothing is evicted
PopNone(s, cutoff) == s

PopOnce(s, cutoff) ==
  IF s # <<>> /\ Head(s) <= cutoff THEN Tail(s) ELSE s

\* deque.popleft() while the oldest entry is <= cutoff
RECURSIVE PopWhile(_, _)
PopWhile(s, cutoff) ==
  IF s # <<>> /\ Head(s) <= cutoff THEN PopWhile(Tail(s), cutoff) ELSE s

RECURSIVE SortedSeq(_)
SortedSeq(S) ==
  IF S = {} THEN <<>>
  ELSE LET x == CHOOSE x \in S : \A y \in S : x <= y
       IN  <<x>> \o SortedSeq(S \ {x})

\* SELECT request_time FROM rate_limits WHERE user_id = ? AND request_time > ?
\* (answered from the index on (user_id, request_time): ascending)
SelectRows(rows, user_id, one_hour_ago) ==
  SortedSeq({r[2] : r \in {q \in rows : q[1] = user_id /\ q[2] > one_hour_ago}})

\* _load_user_history: the two deques built from the rows
LoadedHour(rows, user_id, current_time) ==
  SelectRows(rows, user_id, current_time - HourWindow)

IsRecent(request_time, one_minute_ago) == request_time > one_minute_ago

LoadedMinute(rows, user_id, current_time) ==
  SelectSeq(LoadedHour(rows, user_id, current_time),
            LAMBDA request_time : IsRecent(request_time, current_time - MinuteWindow))

\* variant of DeleteExpired: without the condition on user_id
DeleteExpiredAnyUser(rows, user_id, one_hour_ago) ==
  {r \in rows : ~(r[2] <= one_hour_ago)}

\* DELETE FROM rate_limits WHERE user_id = ? AND request_time <= ?
DeleteExpired(rows, user_id, one_hour_ago) ==
  {r \in rows : ~(r[1] = user_id /\ r[2] <= one_hour_ago)}

\* variant of DeleteUser: only what left the hour window is deleted
DeleteUserExpired(rows, user_id) ==
  {r \in rows : ~(r[1] = user_id /\ r[2] <= now - HourWindow)}

\* DELETE FROM rate_limits WHERE user_id = ?
DeleteUser(rows, user_id) == {r \in rows : r[1] # user_id}

\* variants of Decide: ">" for ">=", and the hour limit looked at first
DecideStrict(m, h, current_time) ==
  IF Len(m) > minute_limit
  THEN RateLimitError(MinuteWindow - (current_time - m[1]), "per minute")
  ELSE IF Len(h) > hour_limit
       THEN RateLimitError(HourWindow - (current_time - h[1]), "per hour")
       ELSE Admitted

DecideHourFirst(m, h, current_time) ==
  IF Len(h) >= hour_limit
  THEN RateLimitError(HourWindow - (current_time - h[1]), "per hour")
  ELSE IF Len(m) >= minute_limit
       THEN RateLimitError(MinuteWindow - (current_time - m[1]), "per minute")
       ELSE Admitted

\* lines 122-134 of check_rate_limit
Decide(m, h, current_time) ==
  IF Len(m) >= minute_limit
  THEN RateLimitError(MinuteWindow - (current_time - m[1]), "per minute")
  ELSE IF Len(h) >= hour_limit
       THEN RateLimitError(HourWindow - (current_time - h[1]), "per hour")
       ELSE Admitted

Outcome(op, m, h, current_time) ==
  IF op = "check" THEN Decide(m, h, current_time) ELSE StatsResult(m, h)

\* ---- asyncio.Lock -----------------------------------------------------------
\* variant of LockKey: one lock for all users
LockKeyGlobal(user_id) == 1

\* self.locks[user_id]
LockKey(user_id) == user_id

\* variant of LockFree: the lock is not looked at
LockFreeAlways(lk, k) == TRUE

\* Lock.acquire returns at once exactly then
LockFree(lk, k) == ~lk[k].locked /\ lk[k].waiters = <<>>

Release(lk, k) == [lk EXCEPT ![k].locked = FALSE]

World(tk, lk, m, keys, h) ==
  [task |-> tk, locks |-> lk, m |-> m, keys |-> keys, h |-> h]

\* variant of Enqueue: the newest waiter is woken first
EnqueueFront(t, tk, lk, m, keys, h) ==
  World([tk EXCEPT !.pc = "wait_lock"],
        [lk EXCEPT ![LockKey(tk.uid)].waiters = <<t>> \o @], m, keys, h)

Enqueue(t, tk, lk, m, keys, h) ==
  World([tk EXCEPT !.pc = "wait_lock"],
        [lk EXCEPT ![LockKey(tk.uid)].waiters = Append(@, t)], m, keys, h)

\* ---- the bodies of the four operations, up to their first suspension ---------
\* variant of RecordBody: the timestamp goes to the minute sequence only
RecordBodyMinuteOnly(tk, lk, m, keys, h) ==
  World([tk EXCEPT !.pc = "insert"], lk,
        [m EXCEPT ![tk.uid] = Append(@, tk.current_time)],
        keys \cup {tk.uid}, h)

\* record_request, lines 142-143, then suspended in the INSERT
RecordBody(tk, lk, m, keys, h) ==
  World([tk EXCEPT !.pc = "insert"], lk,
        [m EXCEPT ![tk.uid] = Append(@, tk.current_time)],
        keys \cup {tk.uid},
        [h EXCEPT ![tk.uid] = Append(@, tk.current_time)])

\* wrapper, line 213: record_request is called in the segment that got the
\* admission; it reads the clock and takes the lock or queues for it
BeginRecord(t, tk, lk, m, keys, h) ==
  LET tk1 == [tk EXCEPT !.op = "record", !.current_time = now]
      k == LockKey(tk.uid)
  IN  IF LockFree(lk, k)
      THEN RecordBody(tk1, [lk EXCEPT ![k].locked = TRUE], m, keys, h)
      ELSE Enqueue(t, tk1, lk, m, keys, h)

\* variant of Complete: the wrapper goes on to record after a rejection too
CompleteNoReturn(t, tk, lk, m, keys, h, res) ==
  LET lk1 == Release(lk, LockKey(tk.uid))
      tk1 == [tk EXCEPT !.result = res, !.current_time = 0]
  IN  IF tk.cmd = "wrapped" /\ tk.op = "check" /\ res.kind \in {"admit", "reject"}
      THEN BeginRecord(t, [tk1 EXCEPT !.admitted = TRUE], lk1, m, keys, h)
      ELSE IF tk.cmd = "wrapped" /\ tk.op = "record"
           THEN World([tk1 EXCEPT !.pc = "handler"], lk1, m, keys, h)
           ELSE World([tk1 EXCEPT !.pc = "done"], lk1, m, keys, h)

\* variant of Complete: the lock is released on the normal path only
CompleteKeepsLockOnRaise(t, tk, lk, m, keys, h, res) ==
  LET lk1 == IF res.kind = "raise" THEN lk ELSE Release(lk, LockKey(tk.uid))
      tk1 == [tk EXCEPT !.result = res, !.current_time = 0]
  IN  IF tk.cmd = "wrapped" /\ tk.op = "check" /\ res.kind = "admit"
      THEN BeginRecord(t, [tk1 EXCEPT !.admitted = TRUE], lk1, m, keys, h)
      ELSE IF tk.cmd = "wrapped" /\ tk.op = "record"
           THEN World([tk1 EXCEPT !.pc = "handler"], lk1, m, keys, h)
           ELSE World([tk1 EXCEPT !.pc = "done"], lk1, m, keys, h)

\* an operation ends: async with releases the lock and the caller goes on
Complete(t, tk, lk, m, keys, h, res) ==
  LET lk1 == Release(lk, LockKey(tk.uid))
      tk1 == [tk EXCEPT !.result = res, !.current_time = 0]
  IN  IF tk.cmd = "wrapped" /\ tk.op = "check" /\ res.kind = "admit"
      THEN BeginRecord(t, [tk1 EXCEPT !.admitted = TRUE], lk1, m, keys, h)
      ELSE IF tk.cmd = "wrapped" /\ tk.op = "record"
           THEN World([tk1 EXCEPT !.pc = "handler"], lk1, m, keys, h)
           ELSE World([tk1 EXCEPT !.pc = "done"], lk1, m, keys, h)

\* variant of cleanup_old_requests: the user's cache entry is dropped when the
\* hour sequence is left empty
cleanup_dropping(t, tk, lk, m, keys, h) ==
  LET u == tk.uid
      m2 == PopWhile(m[u], now - MinuteWindow)
      h2 == PopWhile(h[u], now - HourWindow)
      mm == [m EXCEPT ![u] = m2]
      hh == [h EXCEPT ![u] = h2]
  IN  IF Len(h2) = 0
      THEN World([tk EXCEPT !.pc = "cleanup_db", !.current_time = now], lk,
                 mm, keys \ {u}, hh)
      ELSE Complete(t, tk, lk, mm, keys \cup {u}, hh, Outcome(tk.op, m2, h2, now))

\* _cleanup_old_requests and what follows it in check_rate_limit/get_user_stats
cleanup_old_requests(t, tk, lk, m, keys, h) ==
  LET u == tk.uid
      m2 == PopWhile(m[u], now - MinuteWindow)
      h2 == PopWhile(h[u], now - HourWindow)
      mm == [m EXCEPT ![u] = m2]
      hh == [h EXCEPT ![u] = h2]
  IN  IF Len(h2) = 0
      THEN World([tk EXCEPT !.pc = "cleanup_db", !.current_time = now], lk,
                 mm, keys \cup {u}, hh)
      ELSE Complete(t, tk, lk, mm, keys \cup {u}, hh, Outcome(tk.op, m2, h2, now))

\* variant of Body: check_rate_limit counts the request it is asked about
BodyCheckRecords(t, tk, lk, m, keys, h) ==
  CASE tk.op \in {"check", "stats"} ->
         IF tk.uid \notin keys
         THEN World([tk EXCEPT !.pc = "load", !.current_time = now], lk, m, keys, h)
         ELSE cleanup_old_requests(t, tk, lk,
                                   [m EXCEPT ![tk.uid] = Append(@, now)], keys,
                                   [h EXCEPT ![tk.uid] = Append(@, now)])
    [] tk.op = "record" -> RecordBody(tk, lk, m, keys, h)
    [] tk.op = "reset" ->
         World([tk EXCEPT !.pc = "delete"], lk, [m EXCEPT ![tk.uid] = <<>>],
               keys \cup {tk.uid}, [h EXCEPT ![tk.uid] = <<>>])

Body(t, tk, lk, m, keys, h) ==
  CASE tk.op \in {"check", "stats"} ->
         IF tk.uid \notin keys
         THEN World([tk EXCEPT !.pc = "load", !.current_time = now], lk, m, keys, h)
         ELSE cleanup_old_requests(t, tk, lk, m, keys, h)
    [] tk.op = "record" -> RecordBody(tk, lk, m, keys, h)
    [] tk.op = "reset" ->
         World([tk EXCEPT !.pc = "delete"], lk, [m EXCEPT ![tk.uid] = <<>>],
               keys \cup {tk.uid}, [h EXCEPT ![tk.uid] = <<>>])

Acquire(t, tk, lk, m, keys, h) ==
  LET k == LockKey(tk.uid)
  IN  IF LockFree(lk, k)
      THEN Body(t, tk, [lk EXCEPT ![k].locked = TRUE], m, keys, h)
      ELSE Enqueue(t, tk, lk, m, keys, h)

Apply(t, W) ==
  /\ task' = [task EXCEPT ![t] = W.task]
  /\ locks' = W.locks
  /\ minute_requests' = W.m
  /\ minute_keys' = W.keys
  /\ hour_requests' = W.h

\* ---- the /ask handler of the Q&A cog -----------------------------------------
\* the names under which main.py's setup_hook registers the cogs
CogNames == {"RateLimit", "Chat", "QACog"}

\* bot.get_cog(name)
get_cog(name) == IF name \in CogNames THEN name ELSE "None"

\* QACog._check_rate_limit: whether the request may go on, and whether the
\* Rate Limiter was asked
qa_check_rate_limit ==
  IF get_cog("RateLimitCog") # "None"
  THEN \* the cog has no method check_rate_limit: AttributeError, caught
       [allowed |-> TRUE, checked |-> FALSE]
  ELSE [allowed |-> TRUE, checked |-> FALSE]

\* ---- initial state ---------------------------------------------------------
Init ==
  /\ now = 0
  /\ minute_requests = [u \in Users |-> <<>>]
  /\ minute_keys = {}
  /\ hour_requests = [u \in Users |-> <<>>]
  /\ locks = [u \in Users |-> UnlockedLock]
  /\ db = {}
  /\ task = [t \in Tasks |-> IdleTask]
  /\ nticks = 0 /\ nops = 0
  /\ lost = [u \in Users |-> FALSE]
  /\ reset_clean = [u \in Users |-> FALSE]

\* ---- commands ----------------------------------------------------------------
\* a command handler starts and runs up to its first suspension (coroutines
\* are interchangeable: a command takes the first free one)
CanStart(t) ==
  /\ task[t].pc = "idle"
  /\ \A t2 \in Tasks : t2 < t => task[t2].pc # "idle"
  /\ nops < MaxOps

Invoke(t, u, cmd) ==
  /\ LET tk == [IdleTask EXCEPT !.cmd = cmd,
                  !.op = IF cmd = "wrapped" THEN "check" ELSE cmd,
                  !.uid = u,
                  !.current_time = IF cmd = "record" THEN now ELSE 0]
     IN  Apply(t, Acquire(t, tk, locks, minute_requests, minute_keys, hour_requests))
  /\ nops' = nops + 1
  /\ UNCHANGED <<now, db, nticks, lost, reset_clean>>

\* RateLimit.check_user_rate_limit -> RateLimitManager.check_rate_limit
check_rate_limit(t, u) == CanStart(t) /\ Invoke(t, u, "check")

\* RateLimit.record_user_request -> RateLimitManager.record_request
record_request(t, u) == CanStart(t) /\ Invoke(t, u, "record")

\* RateLimit.rate_limit_stats -> RateLimitManager.get_user_stats
get_user_stats(t, u) == CanStart(t) /\ Invoke(t, u, "stats")

\* RateLimit.reset_rate_limits -> RateLimitManager.reset_user_limits
reset_user_limits(t, u) == CanStart(t) /\ Invoke(t, u, "reset")

\* a command wrapped by the decorator RateLimit.rate_limit
wrapper(t, u) == CanStart(t) /\ Invoke(t, u, "wrapped")

\* QACog.ask
ask(t, u, ready) ==
  /\ CanStart(t)
  /\ LET c == qa_check_rate_limit
         tk == [IdleTask EXCEPT !.cmd = "ask", !.op = "none", !.uid = u,
                                !.admitted = c.checked /\ c.allowed]
     IN  task' = [task EXCEPT ![t] =
                    IF c.allowed /\ ready THEN [tk EXCEPT !.pc = "handler"]
                    ELSE [tk EXCEPT !.pc = "done"]]
  /\ nops' = nops + 1
  /\ UNCHANGED <<now, minute_requests, minute_keys, hour_requests, locks, db,
                 nticks, lost, reset_clean>>

\* ---- the segments after a suspension ------------------------------------------
\* the first waiter of a released lock takes it and enters the body
Resume(t) ==
  LET k == LockKey(task[t].uid)
  IN  /\ task[t].pc = "wait_lock"
      /\ ~locks[k].locked
      /\ locks[k].waiters # <<>> /\ Head(locks[k].waiters) = t
      /\ Apply(t, Body(t, task[t],
                       [locks EXCEPT ![k] = [locked |-> TRUE, waiters |-> Tail(@.waiters)]],
                       minute_requests, minute_keys, hour_requests))
      /\ UNCHANGED <<now, db, nticks, nops, lost, reset_clean>>

\* _load_user_history got its rows; _cleanup_old_requests follows
load_user_history(t) ==
  LET u == task[t].uid
      ct == task[t].current_time
  IN  /\ task[t].pc = "load"
      /\ Apply(t, cleanup_old_requests(t, task[t], locks,
                    [minute_requests EXCEPT ![u] = LoadedMinute(db, u, ct)],
                    minute_keys \cup {u},
                    [hour_requests EXCEPT ![u] = LoadedHour(db, u, ct)]))
      /\ UNCHANGED <<now, db, nticks, nops, lost, reset_clean>>

\* variant of load_fails: the failure is swallowed and the operation goes on
\* with the empty cache
load_fails_open(t) ==
  /\ task[t].pc = "load"
  /\ Apply(t, cleanup_old_requests(t, task[t], locks, minute_requests,
                                   minute_keys, hour_requests))
  /\ UNCHANGED <<now, db, nticks, nops, lost, reset_clean>>

\* the store fails in _load_user_history
load_fails(t) ==
  /\ task[t].pc = "load"
  /\ Apply(t, Complete(t, task[t], locks, minute_requests, minute_keys,
                       hour_requests, Raised))
  /\ UNCHANGED <<now, db, nticks, nops, lost, reset_clean>>

\* the DELETE of _cleanup_old_requests is done; the caller decides
cleanup_delete(t) ==
  LET u == task[t].uid
  IN  /\ task[t].pc = "cleanup_db"
      /\ db' = DeleteExpired(db, u, task[t].current_time - HourWindow)
      /\ Apply(t, Complete(t, task[t], locks, minute_requests, minute_keys,
                           hour_requests,
                           Outcome(task[t].op, minute_requests[u], hour_requests[u], now)))
      /\ UNCHANGED <<now, nticks, nops, lost, reset_clean>>

\* the store fails in _cleanup_old_requests
cleanup_fails(t) ==
  /\ task[t].pc = "cleanup_db"
  /\ Apply(t, Complete(t, task[t], locks, minute_requests, minute_keys,
                       hour_requests, Raised))
  /\ UNCHANGED <<now, db, nticks, nops, lost, reset_clean>>

\* variant of insert_row: the record gets the time of the write, not the
\* timestamp that went into the cache
insert_row_now(t) ==
  LET u == task[t].uid
      row == <<u, now>>
  IN  /\ task[t].pc = "insert"
      /\ row \notin db
      /\ db' = db \cup {row}
      /\ Apply(t, Complete(t, task[t], locks, minute_requests, minute_keys,
                           hour_requests, Returned))
      /\ reset_clean' = [reset_clean EXCEPT ![u] = FALSE]
      /\ UNCHANGED <<now, nticks, nops, lost>>

\* the INSERT of record_request is committed
insert_row(t) ==
  LET u == task[t].uid
      row == <<u, task[t].current_time>>
  IN  /\ task[t].pc = "insert"
      /\ row \notin db
      /\ db' = db \cup {row}
      /\ Apply(t, Complete(t, task[t], locks, minute_requests, minute_keys,
                           hour_requests, Returned))
      /\ reset_clean' = [reset_clean EXCEPT ![u] = FALSE]
      /\ UNCHANGED <<now, nticks, nops, lost>>

\* the INSERT fails (store failure, or the PRIMARY KEY is there already):
\* logged, not raised
insert_fails(t) ==
  LET u == task[t].uid
  IN  /\ task[t].pc = "insert"
      /\ Apply(t, Complete(t, task[t], locks, minute_requests, minute_keys,
                           hour_requests, Returned))
      /\ lost' = [lost EXCEPT ![u] = TRUE]
      /\ reset_clean' = [reset_clean EXCEPT ![u] = FALSE]
      /\ UNCHANGED <<now, db, nticks, nops>>

\* the DELETE of reset_user_limits is committed
reset_delete(t) ==
  LET u == task[t].uid
  IN  /\ task[t].pc = "delete"
      /\ db' = DeleteUser(db, u)
      /\ Apply(t, Complete(t, task[t], locks, minute_requests, minute_keys,
                           hour_requests, Returned))
      /\ reset_clean' = [reset_clean EXCEPT ![u] = TRUE]
      /\ UNCHANGED <<now, nticks, nops, lost>>

\* the store fails in reset_user_limits
reset_fails(t) ==
  /\ task[t].pc = "delete"
  /\ Apply(t, Complete(t, task[t], locks, minute_requests, minute_keys,
                       hour_requests, Raised))
  /\ UNCHANGED <<now, db, nticks, nops, lost, reset_clean>>

\* the wrapped command (or the body of /ask) ends
handler_done(t) ==
  /\ task[t].pc = "handler"
  /\ task' = [task EXCEPT ![t] = IdleTask]
  /\ UNCHANGED <<now, minute_requests, minute_keys, hour_requests, locks, db,
                 nticks, nops, lost, reset_clean>>

\* the wrapped command (or the body of /ask) raises: nothing is taken back
handler_fails(t) ==
  /\ task[t].pc = "handler"
  /\ task' = [task EXCEPT ![t] = [@ EXCEPT !.pc = "done", !.result = Raised]]
  /\ UNCHANGED <<now, minute_requests, minute_keys, hour_requests, locks, db,
                 nticks, nops, lost, reset_clean>>

\* the command has answered (ctx.send) and its coroutine ends
Return(t) ==
  /\ task[t].pc = "done"
  /\ task' = [task EXCEPT ![t] = IdleTask]
  /\ UNCHANGED <<now, minute_requests, minute_keys, hour_requests, locks, db,
                 nticks, nops, lost, reset_clean>>

\* ---- the environment ------------------------------------------------------------
Tick(d) ==
  /\ nticks < MaxTicks
  /\ now' = now + d
  /\ nticks' = nticks + 1
  /\ UNCHANGED <<minute_requests, minute_keys, hour_requests, locks, db, task,
                 nops, lost,
                 reset_clean>>

\* the process ends and RateLimitManager.__init__ runs again: the store stays
Restart ==
  /\ minute_requests' = [u \in Users |-> <<>>]
  /\ minute_keys' = {}
  /\ hour_requests' = [u \in Users |-> <<>>]
  /\ locks' = [u \in Users |-> UnlockedLock]
  /\ task' = [t \in Tasks |-> IdleTask]
  /\ lost' = [u \in Users |->
                lost[u] \/ \E t \in Tasks : task[t].pc = "insert" /\ task[t].uid = u]
  /\ UNCHANGED <<now, db, nticks, nops, reset_clean>>

Next ==
  \/ \E t \in Tasks, u \in Users :
       \/ check_rate_limit(t, u)
       \/ record_request(t, u)
       \/ get_user_stats(t, u)
       \/ reset_user_limits(t, u)
       \/ wrapper(t, u)
       \/ \E ready \in BOOLEAN : ask(t, u, ready)
  \/ \E t \in Tasks :
       \/ Resume(t)
       \/ load_user_history(t)
       \/ load_fails(t)
       \/ cleanup_delete(t)
       \/ cleanup_fails(t)
       \/ insert_row(t)
       \/ insert_fails(t)
       \/ reset_delete(t)
       \/ reset_fails(t)
       \/ handler_done(t)
       \/ handler_fails(t)
       \/ Return(t)
  \/ \E d \in TimeSteps : Tick(d)
  \/ Restart

Spec == Init /\ [][Next]_vars

\* ---- the check-then-record protocol alone ---------------------------------------
\* one dispatcher: a wrapped command ends before the next one starts
SeqOps == MaxOps + 2

wrapper_seq(u) ==
  /\ task[1].pc = "idle"
  /\ nops < SeqOps
  /\ Invoke(1, u, "wrapped")

NextSeq ==
  \/ \E u \in Users : wrapper_seq(u)
  \/ load_user_history(1)
  \/ load_fails(1)
  \/ cleanup_delete(1)
  \/ cleanup_fails(1)
  \/ insert_row(1)
  \/ insert_fails(1)
  \/ handler_done(1)
  \/ handler_fails(1)
  \/ Return(1)
  \/ \E d \in TimeSteps : Tick(d)
  \/ Restart

SpecSeq == Init /\ [][NextSeq]_vars

\* wrapped commands of all coroutines, concurrently
NextProtocol ==
  \/ \E t \in Tasks, u \in Users : wrapper(t, u)
  \/ \E t \in Tasks :
       \/ Resume(t)
       \/ load_user_history(t)
       \/ load_fails(t)
       \/ cleanup_delete(t)
       \/ cleanup_fails(t)
       \/ insert_row(t)
       \/ insert_fails(t)
       \/ handler_done(t)
       \/ handler_fails(t)
       \/ Return(t)
  \/ \E d \in TimeSteps : Tick(d)
  \/ Restart

SpecProtocol == Init /\ [][NextProtocol]_vars

\* one process from its start on an empty store, without administrator resets:
\* its cache has seen every request that was recorded
NextRunning ==
  \/ \E t \in Tasks, u \in Users :
       \/ check_rate_limit(t, u)
       \/ record_request(t, u)
       \/ get_user_stats(t, u)
       \/ wrapper(t, u)
  \/ \E t \in Tasks :
       \/ Resume(t)
       \/ load_user_history(t)
       \/ load_fails(t)
       \/ cleanup_delete(t)
       \/ cleanup_fails(t)
       \/ insert_row(t)
       \/ insert_fails(t)
       \/ handler_done(t)
       \/ handler_fails(t)
       \/ Return(t)
  \/ \E d \in TimeSteps : Tick(d)

SpecRunning == Init /\ [][NextRunning]_vars

\* one process in which the event loop runs every coroutine that is ready and
\* every call to the store returns; the time of day plays no part in the
\* locking, and the clock moves by whole hours, after which every request
\* has left both windows
NextLive ==
  \/ \E t \in Tasks, u \in Users :
       \/ check_rate_limit(t, u)
       \/ record_request(t, u)
       \/ get_user_stats(t, u)
       \/ reset_user_limits(t, u)
       \/ wrapper(t, u)
  \/ \E t \in Tasks :
       \/ Resume(t)
       \/ load_user_history(t)
       \/ load_fails(t)
       \/ cleanup_delete(t)
       \/ cleanup_fails(t)
       \/ insert_row(t)
       \/ insert_fails(t)
       \/ reset_delete(t)
       \/ reset_fails(t)
       \/ handler_done(t)
       \/ handler_fails(t)
       \/ Return(t)
  \/ Tick(HourWindow)

\* the aiosqlite call in which the coroutine is suspended returns or raises
StoreReturns(t) ==
  \/ load_user_history(t)
  \/ load_fails(t)
  \/ cleanup_delete(t)
  \/ cleanup_fails(t)
  \/ insert_row(t)
  \/ insert_fails(t)
  \/ reset_delete(t)
  \/ reset_fails(t)

\* Lock.release wakes the first waiter and the event loop runs it; the store
\* answers every call
Fairness ==
  \A t \in Tasks : WF_vars(Resume(t)) /\ WF_vars(StoreReturns(t))

SpecLive == Init /\ [][NextLive]_vars /\ Fairness

\* ---- what the claims speak of ----------------------------------------------------
\* the entries of a deque that lie in the trailing window of w seconds
InWindow(s, w) == Len(SelectSeq(s, LAMBDA x : x > now - w))

\* the durable records of a user that lie in the trailing window of w seconds
RowsInWindow(u, w) == Cardinality({r \in db : r[1] = u /\ r[2] > now - w})

\* the coroutine is suspended in a store call inside "async with self.locks[..]"
InLock(t) == task[t].pc \in {"load", "cleanup_db", "insert", "delete"}

\* ---- C1 ---------------------------------------------------------------------------
\* C1: when the check/record pairs of a user run one after another, the requests
\* the limiter has on record for that user (in its cache and in the durable
\* store) never number more than minute_limit in the trailing 60 s nor more
\* than hour_limit in the trailing 3600 s.
C1_SequentialWithinLimits ==
  \A u \in Users :
    /\ InWindow(hour_requests[u], MinuteWindow) <= minute_limit
    /\ InWindow(hour_requests[u], HourWindow) <= hour_limit
    /\ RowsInWindow(u, MinuteWindow) <= minute_limit
    /\ RowsInWindow(u, HourWindow) <= hour_limit

\* a pair was rejected while the user's minute window is exactly full
C1_Witness ==
  /\ task[1].cmd = "wrapped" /\ task[1].pc = "done"
  /\ task[1].result.kind = "reject"
  /\ InWindow(hour_requests[task[1].uid], MinuteWindow) = minute_limit
  /\ RowsInWindow(task[1].uid, MinuteWindow) = minute_limit

\* ---- C2 ---------------------------------------------------------------------------
\* C2 (as claimed): concurrent requests of one user that run check-then-record
\* are never all admitted when that takes the user's count in a window over
\* the threshold.
C2_NeverAllAdmitted ==
  \A u \in Users :
    /\ InWindow(minute_requests[u], MinuteWindow) <= minute_limit
    /\ InWindow(hour_requests[u], HourWindow) <= hour_limit

\* C2 (amended): concurrent requests of one user can all be admitted, and the
\* user's count in a window then exceeds the threshold by at most the number of
\* concurrent requests less one.
C2_OverAdmissionBounded ==
  \A u \in Users :
    /\ InWindow(hour_requests[u], MinuteWindow) <= minute_limit + NumTasks - 1
    /\ InWindow(hour_requests[u], HourWindow) <= hour_limit + NumTasks - 1

\* two wrapped commands of one user were both admitted and both recorded
C2_Witness ==
  \E u \in Users :
    /\ InWindow(minute_requests[u], MinuteWindow) = minute_limit + 1
    /\ \A t \in {1, 2} : /\ task[t].cmd = "wrapped" /\ task[t].uid = u
                         /\ task[t].admitted /\ task[t].pc = "handler"

\* ---- C3 ---------------------------------------------------------------------------
\* C3: a handler runs the retrieval-and-generation service for a request only
\* after a Rate Limiter check for the requesting user returned admitted.
C3_ServiceOnlyAfterAdmit ==
  \A t \in Tasks : task[t].pc = "handler" => task[t].admitted

\* ---- C4 ---------------------------------------------------------------------------
\* the step changes what the cache holds for user u
CacheChanges(u) ==
  \/ minute_requests'[u] # minute_requests[u]
  \/ hour_requests'[u] # hour_requests[u]
  \/ (u \in minute_keys') # (u \in minute_keys)

\* the step is a segment of coroutine t on user u, which has u's lock or takes
\* it while nobody has it
LockedSegment(t, u) ==
  /\ task'[t] # task[t]
  /\ task'[t].uid = u
  /\ \A t2 \in Tasks \ {t} : ~(InLock(t2) /\ task[t2].uid = u)
  /\ (InLock(t) /\ task[t].uid = u) \/ ~locks[u].locked

\* C4: at most one operation on a user is between taking and releasing that
\* user's lock, also while it is suspended in a store call, and the user's
\* cached sequences change only in a segment of the operation that has the lock.
C4_LockSerialisesUser ==
  /\ [](\A t1, t2 \in Tasks :
          (t1 # t2 /\ InLock(t1) /\ InLock(t2)) => task[t1].uid # task[t2].uid)
  /\ [](\A t \in Tasks : InLock(t) => locks[task[t].uid].locked)
  /\ [][\A u \in Users :
          CacheChanges(u) =>
            \/ minute_keys' = {} /\ \A t \in Tasks : task'[t] = IdleTask
            \/ \E t \in Tasks : LockedSegment(t, u)]_vars

\* one operation on a user is suspended in the store with the lock, another
\* operation on the same user waits for it
C4_Witness ==
  \E t1, t2 \in Tasks :
    /\ t1 # t2 /\ task[t1].uid = task[t2].uid
    /\ InLock(t1) /\ task[t2].pc = "wait_lock"
    /\ task[t1].op = "record" /\ task[t2].op = "stats"

\* ---- C5 ---------------------------------------------------------------------------
Pos(q, x) == CHOOSE i \in 1..Len(q) : q[i] = x

\* t2 stands before t in the queue q
Ahead(q, t2, t) ==
  /\ \E i \in 1..Len(q) : q[i] = t2
  /\ \E i \in 1..Len(q) : q[i] = t
  /\ Pos(q, t2) < Pos(q, t)

\* the coroutine waits for its user's lock and is not the one to take it next
Blocked(t) ==
  LET l == locks[task[t].uid]
  IN  /\ task[t].pc = "wait_lock"
      /\ ~(~l.locked /\ l.waiters # <<>> /\ Head(l.waiters) = t)

\* C5: an operation waits only for operations on its own user: whenever it is
\* kept waiting, an operation on the same user has that user's lock or stands
\* before it in the queue; an operation on another user never keeps it waiting.
C5_OnlyOwnUserBlocks ==
  \A t \in Tasks :
    Blocked(t) =>
      \E t2 \in Tasks \ {t} :
        /\ task[t2].uid = task[t].uid
        /\ \/ InLock(t2)
           \/ Ahead(locks[task[t].uid].waiters, t2, t)

\* operations on two different users are inside their locks at the same time
C5_Witness ==
  \E t1, t2 \in Tasks :
    /\ task[t1].uid # task[t2].uid
    /\ InLock(t1) /\ InLock(t2)
    /\ locks[task[t1].uid].locked /\ locks[task[t2].uid].locked

\* ---- C6 ---------------------------------------------------------------------------
\* in this step check_rate_limit of coroutine t returns its decision
CheckAnswered(t) ==
  /\ task'[t].result # task[t].result
  /\ task'[t].result.kind \in {"admit", "reject"}

\* the wrapper's record_request appended its timestamp in the same segment
AppendedToo(t) == task'[t].op = "record" /\ task'[t].pc = "insert"

DropLast(s) == SubSeq(s, 1, Len(s) - 1)

\* the sequences of t's user after load and eviction, as the step leaves them
MinuteAfter(t) ==
  IF AppendedToo(t) THEN DropLast(minute_requests'[task'[t].uid])
  ELSE minute_requests'[task'[t].uid]

HourAfter(t) ==
  IF AppendedToo(t) THEN DropLast(hour_requests'[task'[t].uid])
  ELSE hour_requests'[task'[t].uid]

\* C6: check_rate_limit rejects "per minute" with retry-after
\* 60 - (now - oldest minute entry) exactly when the minute sequence after load
\* and eviction has at least minute_limit entries (whatever the hour sequence);
\* otherwise it rejects "per hour" with retry-after 3600 - (now - oldest hour
\* entry) exactly when the hour sequence has at least hour_limit entries;
\* otherwise it admits.
C6_DecisionFromSequences ==
  [][\A t \in Tasks :
       CheckAnswered(t) =>
         LET r == task'[t].result
             m == MinuteAfter(t)
             h == HourAfter(t)
             perMinute == r.kind = "reject" /\ r.reason = "per minute"
             perHour == r.kind = "reject" /\ r.reason = "per hour"
         IN  /\ perMinute <=> Len(m) >= minute_limit
             /\ perMinute => r.retry_after = 60 - (now - m[1])
             /\ perHour <=> (Len(m) < minute_limit /\ Len(h) >= hour_limit)
             /\ perHour => r.retry_after = 3600 - (now - h[1])
             /\ r.kind = "admit" <=> (Len(m) < minute_limit /\ Len(h) < hour_limit)
             /\ r.kind = "reject" => (perMinute \/ perHour)]_vars

\* a check was rejected "per minute" while the hour threshold is reached too
C6_Witness ==
  \E t \in Tasks :
    /\ task[t].cmd = "check" /\ task[t].pc = "done"
    /\ task[t].result.kind = "reject" /\ task[t].result.reason = "per minute"
    /\ Len(minute_requests[task[t].uid]) >= minute_limit
    /\ Len(hour_requests[task[t].uid]) >= hour_limit
    /\ task[t].result.retry_after = 60 - (now - minute_requests[task[t].uid][1])

\* ---- C7 ---------------------------------------------------------------------------
\* all durable records of a user, oldest first
AllRows(u) == SortedSeq({r[2] : r \in {q \in db : q[1] = u}})

\* in this step check_rate_limit or get_user_stats of coroutine t evicts
EvictStep(t) ==
  /\ task[t].pc # "cleanup_db"
  /\ task'[t] # task[t]
  /\ \/ task'[t].pc = "cleanup_db"
     \/ /\ task'[t].result # task[t].result
        /\ task'[t].result.kind \in {"admit", "reject", "stats"}

\* C7: a request recorded at T counts in the minute window at every call with
\* now < T + 60 and in the hour window with now < T + 3600, and no longer from
\* exactly T + 60 and T + 3600 on: eviction leaves in the minute sequence
\* exactly the requests on record with timestamp > now - 60 and in the hour
\* sequence exactly those with timestamp > now - 3600, and get_user_stats
\* reports their numbers.
C7_EvictionHalfOpen ==
  [][\A t \in Tasks :
       EvictStep(t) =>
         LET u == task'[t].uid
             cached == u \in minute_keys
             src_m == IF cached THEN minute_requests[u] ELSE AllRows(u)
             src_h == IF cached THEN hour_requests[u] ELSE AllRows(u)
             m == MinuteAfter(t)
             h == HourAfter(t)
         IN  /\ m = SelectSeq(src_m, LAMBDA T : now < T + 60)
             /\ h = SelectSeq(src_h, LAMBDA T : now < T + 3600)
             /\ \A i \in 1..Len(m) : ~(m[i] <= now - 60)
             /\ \A i \in 1..Len(h) : ~(h[i] <= now - 3600)
             /\ task'[t].result.kind = "stats" =>
                  /\ task'[t].result.minute_count = Len(m)
                  /\ task'[t].result.hour_count = Len(h)]_vars

\* get_user_stats ran exactly 60 s after a request: it is out of the minute
\* count and still in the hour count
C7_Witness ==
  \E t \in Tasks :
    /\ task[t].cmd = "stats" /\ task[t].pc = "done"
    /\ task[t].result.kind = "stats"
    /\ task[t].result.minute_count = 0 /\ task[t].result.hour_count = 1
    /\ minute_requests[task[t].uid] = <<>>
    /\ hour_requests[task[t].uid] = <<now - 60>>

\* ---- whole operations, run without a store failure -------------------------------
\* the cache, its keys and the store as one value
Snapshot(m, keys, h, rows) == [m |-> m, keys |-> keys, h |-> h, rows |-> rows]

Current == Snapshot(minute_requests, minute_keys, hour_requests, db)

\* what RateLimitManager.__init__ leaves of it after a restart
Restarted(S) ==
  Snapshot([u \in Users |-> <<>>], {}, [u \in Users |-> <<>>], S.rows)

\* the sequences of user u after the load (if u is not cached) and the eviction
\* of an operation that starts at time t
MinuteAt(S, u, t) ==
  PopWhile(IF u \in S.keys THEN S.m[u] ELSE LoadedMinute(S.rows, u, t),
           t - MinuteWindow)

HourAt(S, u, t) ==
  PopWhile(IF u \in S.keys THEN S.h[u] ELSE LoadedHour(S.rows, u, t),
           t - HourWindow)

\* check_rate_limit(u) and get_user_stats(u) at time t: what they return
RunCheck(S, u, t) == Decide(MinuteAt(S, u, t), HourAt(S, u, t), t)

RunStats(S, u, t) == StatsResult(MinuteAt(S, u, t), HourAt(S, u, t))

\* get_user_stats(u) at time t: what it leaves behind (deleted: whether the
\* DELETE of _cleanup_old_requests, if it came to it, was committed)
AfterStats(S, u, t, deleted) ==
  Snapshot([S.m EXCEPT ![u] = MinuteAt(S, u, t)],
           S.keys \cup {u},
           [S.h EXCEPT ![u] = HourAt(S, u, t)],
           IF HourAt(S, u, t) = <<>> /\ deleted
           THEN DeleteExpired(S.rows, u, t - HourWindow) ELSE S.rows)

\* no operation on user u is under way
Quiescent(u) ==
  \A t \in Tasks : task[t].uid = u => task[t].pc \in {"idle", "done", "handler"}

\* the times looked at: now and each step of the clock after it
Later == {now} \cup {now + d : d \in TimeSteps}

\* ---- C8 ---------------------------------------------------------------------------
\* C8: when every record_request wrote its durable record, the first
\* check_rate_limit and the first get_user_stats for a user after a restart
\* return what they would have returned at that time without the restart.
C8_RestartKeepsDecision ==
  \A u \in Users :
    (Quiescent(u) /\ ~lost[u]) =>
      \A t \in Later :
        /\ RunCheck(Restarted(Current), u, t) = RunCheck(Current, u, t)
        /\ RunStats(Restarted(Current), u, t) = RunStats(Current, u, t)

\* ---- C9 ---------------------------------------------------------------------------
\* in this step get_user_stats of coroutine t returns its counts
StatsAnswered(t) ==
  /\ task'[t].result # task[t].result
  /\ task'[t].result.kind = "stats"

\* C9: after reset_user_limits(U) has completed and until a record_request(U)
\* completes, get_user_stats(U) reports 0 and 0, the durable store holds no
\* record of U, and a restart leaves the counts at 0.
C9_ResetClears ==
  /\ [](\A u \in Users :
          reset_clean[u] =>
            /\ {r \in db : r[1] = u} = {}
            /\ \A t \in Later :
                 /\ RunStats(Restarted(Current), u, t).minute_count = 0
                 /\ RunStats(Restarted(Current), u, t).hour_count = 0)
  /\ [][\A t \in Tasks :
          (StatsAnswered(t) /\ reset_clean[task'[t].uid]) =>
            /\ task'[t].result.minute_count = 0
            /\ task'[t].result.hour_count = 0]_vars

\* get_user_stats answered 0 and 0 for a reset user whose next request is
\* under way: it is appended to the cache and not yet written
C9_Witness ==
  \E t1, t2 \in Tasks :
    /\ task[t1].cmd = "stats" /\ task[t1].pc = "done"
    /\ reset_clean[task[t1].uid]
    /\ task[t1].result.minute_count = 0 /\ task[t1].result.hour_count = 0
    /\ task[t2].uid = task[t1].uid /\ task[t2].op = "record"
    /\ task[t2].pc = "insert"

\* ---- C10 --------------------------------------------------------------------------
\* C10: check_rate_limit(U) returns the same result whether or not one or two
\* get_user_stats calls, for U or another user, completed or failed in their
\* DELETE before it.
C10_StatsKeepCheck ==
  \A v \in Users :
    Quiescent(v) =>
      \A deleted \in BOOLEAN :
        LET once == AfterStats(Current, v, now, deleted)
            twice == AfterStats(once, v, now, deleted)
        IN  \A u \in Users :
              Quiescent(u) =>
                \A t \in Later :
                  LET plain == RunCheck(Current, u, t)
                  IN  /\ RunCheck(once, u, t) = plain
                      /\ RunCheck(twice, u, t) = plain

\* a check that is rejected "per hour", with or without get_user_stats before
\* it, while the cache still holds an entry that left the minute window
C10_Witness ==
  \E u \in Users :
    /\ Quiescent(u)
    /\ u \in minute_keys
    /\ minute_requests[u] # <<>>
    /\ MinuteAt(Current, u, now) = <<>>
    /\ RunCheck(Current, u, now).reason = "per hour"
    /\ RunCheck(AfterStats(Current, u, now, TRUE), u, now).reason = "per hour"

\* ---- C11 --------------------------------------------------------------------------
\* in this step record_request of coroutine t takes the lock and appends
RecordAppends(t) == task[t].pc # "insert" /\ task'[t].pc = "insert"

\* in this step record_request of coroutine t comes back from its INSERT
RecordReturns(t) == task[t].pc = "insert" /\ task'[t].pc \in {"handler", "done"}

\* C11: record_request(U) appends one and the same timestamp at the end of the
\* minute and of the hour sequence of U and returns normally; a successful
\* write adds exactly the record (U, timestamp) to the store; after a failed
\* write the store is as it was, both sequences still end with the timestamp
\* and the caller gets no error.
C11_RecordAppendsAndSwallows ==
  [][\A t \in Tasks :
       LET u == task'[t].uid
           stamp == task'[t].current_time
           row == <<task[t].uid, task[t].current_time>>
       IN  /\ RecordAppends(t) =>
                \* (the wrapper's record runs in the segment that ends its
                \* check: then the sequences were loaded and evicted first)
                /\ minute_requests'[u] = Append(MinuteAfter(t), stamp)
                /\ hour_requests'[u] = Append(HourAfter(t), stamp)
                /\ ~CheckAnswered(t) =>
                     /\ minute_requests'[u] = Append(minute_requests[u], stamp)
                     /\ hour_requests'[u] = Append(hour_requests[u], stamp)
                     /\ db' = db
                /\ \A v \in Users \ {u} :
                     /\ minute_requests'[v] = minute_requests[v]
                     /\ hour_requests'[v] = hour_requests[v]
           /\ RecordReturns(t) =>
                /\ task'[t].result = Returned
                /\ minute_requests' = minute_requests
                /\ hour_requests' = hour_requests
                /\ minute_requests[u][Len(minute_requests[u])] = row[2]
                /\ hour_requests[u][Len(hour_requests[u])] = row[2]
                /\ \/ db' = db
                   \/ row \notin db /\ db' = db \cup {row}]_vars

\* record_request came back normally from a failed write: the store has no
\* record of the user, the sequences have the timestamp
C11_Witness ==
  \E t \in Tasks :
    /\ task[t].cmd = "record" /\ task[t].pc = "done"
    /\ task[t].result = Returned
    /\ {r \in db : r[1] = task[t].uid} = {}
    /\ minute_requests[task[t].uid] = <<now>>
    /\ hour_requests[task[t].uid] = <<now>>

\* ---- C12 --------------------------------------------------------------------------
\* in this step coroutine t comes out of a durable-store call of
\* check_rate_limit, get_user_stats or reset_user_limits
StoreCallEnds(t) ==
  /\ task[t].pc \in {"load", "cleanup_db", "delete"}
  /\ task'[t] # task[t]
  /\ task'[t].pc # "idle"

\* the call did what it was made for: the history was read into the cache, the
\* expired or the user's records were deleted
StoreCallDone(t) ==
  LET u == task[t].uid
      ct == task[t].current_time
  IN  CASE task[t].pc = "load" ->
             /\ MinuteAfter(t) = PopWhile(LoadedMinute(db, u, ct), now - MinuteWindow)
             /\ HourAfter(t) = PopWhile(LoadedHour(db, u, ct), now - HourWindow)
        [] task[t].pc = "cleanup_db" -> db' = DeleteExpired(db, u, ct - HourWindow)
        [] task[t].pc = "delete" -> db' = DeleteUser(db, u)

\* C12: a durable-store call of check_rate_limit, get_user_stats or
\* reset_user_limits that fails ends the operation with the failure raised to
\* its caller: the operation goes on, and returns an admission, a rejection,
\* counts or normally, only when the call was carried out.
C12_ReadsFailClosed ==
  [][\A t \in Tasks :
       StoreCallEnds(t) =>
         \/ /\ task'[t].result = Raised
            /\ task'[t].pc = "done"
            /\ ~task'[t].admitted
            /\ db' = db
            /\ hour_requests' = hour_requests
         \/ /\ task'[t].result.kind \in {"none", "admit", "reject", "stats", "ok"}
            /\ StoreCallDone(t)]_vars

\* a check failed in its load although the store holds a full minute window
\* of the user: nothing was admitted, nothing cached
C12_Witness ==
  \E t \in Tasks :
    /\ task[t].cmd \in {"check", "wrapped"} /\ task[t].pc = "done"
    /\ task[t].result = Raised
    /\ ~task[t].admitted
    /\ task[t].uid \notin minute_keys
    /\ RowsInWindow(task[t].uid, MinuteWindow) >= minute_limit

\* ---- C13 --------------------------------------------------------------------------
\* check_rate_limit(u) at time t: what it leaves behind (it loads and evicts as
\* get_user_stats does)
AfterCheck(S, u, t, deleted) ==
  Snapshot([S.m EXCEPT ![u] = MinuteAt(S, u, t)],
           S.keys \cup {u},
           [S.h EXCEPT ![u] = HourAt(S, u, t)],
           IF HourAt(S, u, t) = <<>> /\ deleted
           THEN DeleteExpired(S.rows, u, t - HourWindow) ELSE S.rows)

\* C13: when check_rate_limit rejects a user at time t with retry-after r and
\* no request of the user is recorded afterwards, check_rate_limit for that
\* user at time t + r admits.
C13_RetryAfterSuffices ==
  \A u \in Users :
    Quiescent(u) =>
      LET rejected == RunCheck(Current, u, now)
      IN  rejected.kind = "reject" =>
            \A deleted \in BOOLEAN :
              RunCheck(AfterCheck(Current, u, now, deleted), u,
                       now + rejected.retry_after).kind = "admit"

\* ---- C14 --------------------------------------------------------------------------
\* record_request(u) at time t with its write committed: what it leaves behind
AfterRecord(S, u, t) ==
  Snapshot([S.m EXCEPT ![u] = Append(@, t)],
           S.keys \cup {u},
           [S.h EXCEPT ![u] = Append(@, t)],
           S.rows \cup {<<u, t>>})

\* k wrapped commands of user u, one after the other, all at time t
RECURSIVE AfterPairs(_, _, _, _)
AfterPairs(S, u, t, k) ==
  IF k = 0 THEN S
  ELSE LET P == AfterPairs(S, u, t, k - 1)
           C == AfterCheck(P, u, t, TRUE)
       IN  IF RunCheck(P, u, t).kind = "admit" THEN AfterRecord(C, u, t) ELSE C

\* nothing is on record for user u, in the cache or in the store
NothingRecorded(u) ==
  /\ minute_requests[u] = <<>>
  /\ hour_requests[u] = <<>>
  /\ {r \in db : r[1] = u} = {}

\* C14: with the hour threshold above the minute threshold M and nothing on
\* record for a user, M check_rate_limit+record_request pairs made one after
\* the other at one clock reading are all admitted, and the next check at that
\* reading is rejected "per minute" with retry-after 60 less the time since the
\* first of them (here 60: the clock counts whole seconds).
C14_MinuteLimitScenario ==
  \A u \in Users :
    (Quiescent(u) /\ NothingRecorded(u) /\ hour_limit > minute_limit) =>
      /\ \A k \in 0..(minute_limit - 1) :
           RunCheck(AfterPairs(Current, u, now, k), u, now) = Admitted
      /\ RunCheck(AfterPairs(Current, u, now, minute_limit), u, now)
           = RateLimitError(MinuteWindow - (now - now), "per minute")
      /\ Len(AfterPairs(Current, u, now, minute_limit).m[u]) = minute_limit

\* a wrapped command was rejected "per minute" with retry-after 60 right after
\* the user's first minute_limit requests, all of this second
C14_Witness ==
  \E t \in Tasks :
    /\ task[t].cmd = "wrapped" /\ task[t].pc = "done"
    /\ task[t].result = RateLimitError(MinuteWindow, "per minute")
    /\ Len(hour_requests[task[t].uid]) = minute_limit
    /\ \A i \in 1..Len(hour_requests[task[t].uid]) :
         hour_requests[task[t].uid][i] = now
    /\ minute_requests[task[t].uid] = hour_requests[task[t].uid]

\* ---- C15 --------------------------------------------------------------------------
\* every request on record for user u, cached or stored, is more than w
\* seconds old
AllOlderThan(u, w) ==
  /\ \A i \in 1..Len(minute_requests[u]) : minute_requests[u][i] < now - w
  /\ \A i \in 1..Len(hour_requests[u]) : hour_requests[u][i] < now - w
  /\ \A r \in db : r[1] = u => r[2] < now - w

\* C15: a check_rate_limit made more than 60 s after the user's most recent
\* recorded request admits whenever fewer than hour_limit requests of the user
\* lie in the trailing 3600 s.
C15_MinuteWindowClears ==
  [][\A t \in Tasks :
       LET u == task'[t].uid
       IN  ( /\ CheckAnswered(t)
             /\ AllOlderThan(u, MinuteWindow)
             /\ InWindow(hour_requests[u], HourWindow) < hour_limit
             /\ RowsInWindow(u, HourWindow) < hour_limit )
           => task'[t].result = Admitted]_vars

\* a check was admitted 119 s or more after the user's one request of this
\* hour, which the cache still holds in the hour sequence
C15_Witness ==
  \E t \in Tasks :
    /\ task[t].cmd = "check" /\ task[t].pc = "done"
    /\ task[t].result = Admitted
    /\ Len(hour_requests[task[t].uid]) = 1
    /\ hour_requests[task[t].uid][1] < now - MinuteWindow
    /\ hour_requests[task[t].uid][1] > now - HourWindow
    /\ minute_requests[task[t].uid] = <<>>

\* ---- C16 --------------------------------------------------------------------------
\* the handler of the wrapped command of coroutine t raised
HandlerFailed(t) ==
  /\ task[t].cmd = "wrapped" /\ task[t].op = "record"
  /\ task[t].pc = "done" /\ task[t].result = Raised

\* in this step nothing is recorded for user u: no sequence of u gets longer
\* than it was (than the stored history, when it is loaded) and the store gets
\* no row
NothingAdded(u) ==
  LET stored == Cardinality({r \in db : r[1] = u})
      cached == u \in minute_keys
  IN  /\ db' \subseteq db
      /\ Len(minute_requests'[u]) <= IF cached THEN Len(minute_requests[u]) ELSE stored
      /\ Len(hour_requests'[u]) <= IF cached THEN Len(hour_requests[u]) ELSE stored
      /\ \A i \in 1..Len(hour_requests'[u]) :
           \/ \E j \in 1..Len(hour_requests[u]) : hour_requests[u][j] = hour_requests'[u][i]
           \/ <<u, hour_requests'[u][i]>> \in db
      /\ \A i \in 1..Len(minute_requests'[u]) :
           \/ \E j \in 1..Len(minute_requests[u]) : minute_requests[u][j] = minute_requests'[u][i]
           \/ <<u, minute_requests'[u][i]>> \in db

\* C16 (as claimed): the decorator records a request only if the work is
\* performed: a rejected command records nothing and does not run the handler,
\* and a command whose handler fails leaves no recorded request (looked at for
\* the first command ever made, when any record of the user is its own).
C16_RecordOnlyIfPerformed ==
  \A t \in Tasks :
    task[t].cmd = "wrapped" =>
      /\ task[t].result.kind = "reject" => (task[t].op = "check" /\ task[t].pc = "done")
      /\ (HandlerFailed(t) /\ nops = 1) => NothingRecorded(task[t].uid)

\* C16 (amended): the decorator records every admitted command before its
\* handler starts and never takes the record back: a rejected command records
\* nothing and does not run the handler; the handler runs only after
\* record_request appended the command's timestamp; when the handler fails
\* the sequences and the store stay as they are, and when it is aborted the
\* store does.
C16_RecordBeforeHandler ==
  /\ [](\A t \in Tasks :
          task[t].cmd = "wrapped" =>
            /\ task[t].result.kind = "reject" =>
                 (task[t].op = "check" /\ task[t].pc = "done" /\ ~task[t].admitted)
            /\ task[t].pc = "handler" => (task[t].admitted /\ task[t].op = "record"))
  /\ [][\A t \in Tasks :
          LET u == task[t].uid
          IN  task[t].cmd = "wrapped" =>
                /\ (CheckAnswered(t) /\ task'[t].result.kind = "reject") =>
                     NothingAdded(u)
                /\ (task[t].pc = "insert" /\ task'[t].pc = "handler") =>
                     /\ hour_requests'[u][Len(hour_requests'[u])] = task[t].current_time
                     /\ minute_requests'[u][Len(minute_requests'[u])] = task[t].current_time
                /\ (task[t].pc = "handler" /\ task'[t].pc # "handler") =>
                     /\ db' = db
                     /\ task'[t].pc = "done" =>
                          /\ task'[t].result = Raised
                          /\ minute_requests' = minute_requests
                          /\ hour_requests' = hour_requests]_vars

\* the handler of the only command made so far failed, and its request is on
\* record in the cache and in the store
C16_Witness ==
  \E t \in Tasks :
    /\ HandlerFailed(t) /\ nops = 1
    /\ hour_requests[task[t].uid] = <<now>>
    /\ <<task[t].uid, now>> \in db

\* ---- C17 --------------------------------------------------------------------------
\* C17: with at most N requests of one user in the check-then-record protocol
\* at a time (N = NumTasks coroutines), the requests on record for the user in a
\* window, in either cached sequence and in the store, exceed the window's
\* threshold by at most N - 1.
C17_ExcessAtMostNLessOne ==
  \A u \in Users :
    LET extra == NumTasks - 1
    IN  /\ InWindow(minute_requests[u], MinuteWindow) <= minute_limit + extra
        /\ InWindow(hour_requests[u], MinuteWindow) <= minute_limit + extra
        /\ InWindow(hour_requests[u], HourWindow) <= hour_limit + extra
        /\ RowsInWindow(u, MinuteWindow) <= minute_limit + extra
        /\ RowsInWindow(u, HourWindow) <= hour_limit + extra

\* the bound is met in the store: all NumTasks concurrent commands of a user
\* were admitted at different times of one minute and wrote their records
C17_Witness ==
  \E u \in Users :
    /\ RowsInWindow(u, MinuteWindow) = minute_limit + NumTasks - 1
    /\ InWindow(minute_requests[u], MinuteWindow) = minute_limit + NumTasks - 1
    /\ \A t \in Tasks : task[t].cmd = "wrapped" /\ task[t].uid = u /\ task[t].admitted

\* ---- C18 --------------------------------------------------------------------------
\* C18: in every reachable state every timestamp of a user's minute sequence
\* occurs in the user's hour sequence too.
C18_MinuteWithinHour ==
  \A u \in Users :
    \A i \in 1..Len(minute_requests[u]) :
      \E j \in 1..Len(hour_requests[u]) : hour_requests[u][j] = minute_requests[u][i]

\* after a load and an eviction a user's hour sequence holds a request that
\* left the minute window and one that the minute sequence holds too
C18_Witness ==
  \E u \in Users :
    /\ Len(minute_requests[u]) = 1
    /\ Len(hour_requests[u]) = 2
    /\ hour_requests[u][1] <= now - MinuteWindow
    /\ hour_requests[u][2] = minute_requests[u][1]
    /\ \E t \in Tasks : task[t].uid = u /\ task[t].result.kind = "reject"

\* ---- C19 --------------------------------------------------------------------------
Ascending(s) == \A i \in 1..(Len(s) - 1) : s[i] <= s[i + 1]

CheckStep(t) ==
  /\ task'[t] # task[t]
  /\ task'[t].op = "check"
  /\ task'[t].pc # "idle"

\* C20: check_rate_limit records nothing: none of its steps, admitting or
\* rejecting, adds a timestamp to a sequence or a row to the store, changes
\* another user's sequences, or changes the counts that get_user_stats would
\* report for the user now or later.
C20_CheckRecordsNothing ==
  [][\A t \in Tasks :
       CheckStep(t) =>
         LET u == task'[t].uid
             after == Snapshot(minute_requests', minute_keys', hour_requests', db')
         IN  /\ NothingAdded(u)
             /\ \A v \in Users \ {u} :
                  /\ minute_requests'[v] = minute_requests[v]
                  /\ hour_requests'[v] = hour_requests[v]
             /\ \A time \in Later :
                  RunStats(after, u, time) = RunStats(Current, u, time)]_vars

\* two checks of a user were admitted one after the other without a record:
\* the user's one request of this hour is still the only one on record
C20_Witness ==
  \E u \in Users :
    /\ \A t \in Tasks :
         /\ task[t].cmd = "check" /\ task[t].uid = u
         /\ task[t].pc = "done" /\ task[t].result = Admitted
    /\ Len(hour_requests[u]) = 1
    /\ RowsInWindow(u, HourWindow) = 1
    /\ RunStats(Current, u, now) = StatsResult(<<>>, hour_requests[u])

\* ---- C21 --------------------------------------------------------------------------
\* in this step the eviction of coroutine t leaves the hour sequence of its
\* user empty
EvictsToEmpty(t) == EvictStep(t) /\ HourAfter(t) = <<>>

\* in this step check_rate_limit or get_user_stats of coroutine t enters its body
EntersRead(t) ==
  /\ task[t].pc \in {"idle", "wait_lock"}
  /\ task'[t] # task[t]
  /\ task'[t].cmd \in {"check", "stats", "wrapped"}
  /\ task[t].op # "record"

\* C21 (as claimed): when eviction in check_rate_limit or get_user_stats
\* leaves a user's hour sequence empty the user's cache entry is dropped, so
\* that the next check_rate_limit loads the sequences from the store.
C21_CacheDroppedWhenEmpty ==
  [][\A t \in Tasks : EvictsToEmpty(t) => task'[t].uid \notin minute_keys']_vars

\* C21 (amended): when eviction leaves a user's hour sequence empty the user's
\* cache entry stays, with both sequences empty, and the operation goes on to
\* delete the user's expired records; an entry is never dropped in a running
\* process, and a check_rate_limit or get_user_stats for a user who has an
\* entry never loads from the store.
C21_CacheEntryStays ==
  [][/\ \A t \in Tasks :
          /\ EvictsToEmpty(t) =>
               /\ task'[t].uid \in minute_keys'
               /\ MinuteAfter(t) = <<>>
               /\ task'[t].pc = "cleanup_db"
          /\ (EntersRead(t) /\ task'[t].uid \in minute_keys) => task'[t].pc # "load"
     /\ \/ minute_keys \subseteq minute_keys'
        \/ minute_keys' = {} /\ \A t \in Tasks : task'[t] = IdleTask]_vars

\* eviction has just emptied the sequences of a user whose stored record left
\* the hour window; the entry is there and the DELETE is under way
C21_Witness ==
  \E t \in Tasks :
    /\ task[t].pc = "cleanup_db"
    /\ task[t].uid \in minute_keys
    /\ hour_requests[task[t].uid] = <<>>
    /\ \E r \in db : r[1] = task[t].uid /\ r[2] <= now - HourWindow

\* ---- C22 --------------------------------------------------------------------------
\* C22: a step that removes durable records is either the DELETE of
\* reset_user_limits, which removes records of its user only, or the DELETE of
\* a check_rate_limit or get_user_stats whose user's hour sequence is empty
\* after eviction, which removes only records of that user with timestamp
\* <= now - 3600; no step changes a record or replaces one by another.
C22_OnlyExpiredDeleted ==
  [][LET removed == db \ db'
     IN  removed # {} =>
           /\ db' \subseteq db
           /\ \E t \in Tasks :
                LET u == task[t].uid
                IN  \/ /\ task[t].op = "reset" /\ task[t].pc = "delete"
                       /\ \A r \in removed : r[1] = u
                    \/ /\ task[t].op \in {"check", "stats"}
                       /\ task[t].pc = "cleanup_db"
                       /\ hour_requests[u] = <<>>
                       /\ \A r \in removed : r[1] = u /\ r[2] <= now - HourWindow]_vars

\* the cleanup DELETE of one user is under way while the store holds an
\* expired record of that user and an expired record of another user
C22_Witness ==
  \E t \in Tasks :
    /\ task[t].pc = "cleanup_db"
    /\ \E r \in db : r[1] = task[t].uid /\ r[2] <= now - HourWindow
    /\ \E r \in db : r[1] # task[t].uid /\ r[2] <= now - HourWindow

\* ---- C23 --------------------------------------------------------------------------
\* C23: a lost durable write only causes an undercount. In a process whose
\* cache has seen every recorded request, the counts that get_user_stats
\* rebuilds from the store after a restart are, now and later, at most the
\* counts of the requests recorded in each window; and a record_request whose
\* (user, timestamp) the store holds already leaves the store as it is.
C23_LostWriteUndercounts ==
  /\ [](\A u \in Users : \A t \in Later :
          LET stored == RunStats(Restarted(Current), u, t)
              recorded == RunStats(Current, u, t)
          IN  /\ stored.minute_count <= recorded.minute_count
              /\ stored.hour_count <= recorded.hour_count)
  /\ [][\A t \in Tasks :
          (RecordReturns(t) /\ <<task[t].uid, task[t].current_time>> \in db)
            => db' = db]_vars

\* two requests of a user were recorded with the identical timestamp: the
\* store holds one record for them, and a restart would count one
C23_Witness ==
  \E u \in Users :
    /\ Quiescent(u)
    /\ Len(hour_requests[u]) = 2
    /\ hour_requests[u][1] = hour_requests[u][2]
    /\ {r \in db : r[1] = u} = {<<u, hour_requests[u][1]>>}
    /\ RunStats(Restarted(Current), u, now).hour_count = 1
    /\ RunStats(Current, u, now).hour_count = 2

\* ---- C24 --------------------------------------------------------------------------
\* the hour sequence of user u has every durable record of u that lies in the
\* trailing 3600 s
HoldsStoredRows(u) ==
  \A r \in db :
    (r[1] = u /\ r[2] > now - HourWindow) =>
      \E i \in 1..Len(hour_requests[u]) : hour_requests[u][i] = r[2]

\* C24: whenever a user has a cache entry, its hour sequence contains every
\* durable record of that user with timestamp in the trailing 3600 s (also
\* when record_request or reset was the first operation on the user after a
\* restart). Looked at while no operation on the user is under way.
C24_CacheHoldsStoredRows ==
  \A u \in minute_keys : Quiescent(u) => HoldsStoredRows(u)

\* ---- C25 --------------------------------------------------------------------------
\* in this step the DELETE of reset_user_limits of coroutine t fails
ResetFails(t) ==
  /\ task[t].op = "reset" /\ task[t].pc = "delete"
  /\ task'[t].pc = "done" /\ task'[t].result = Raised

\* C25: a reset_user_limits whose durable delete fails changes nothing: it
\* leaves the user's sequences as they were before the call, so that the cache
\* still has every in-window record that the store has of the user.
C25_FailedResetChangesNothing ==
  [][\A t \in Tasks :
       ResetFails(t) =>
         \A r \in db' :
           (r[1] = task[t].uid /\ r[2] > now - HourWindow) =>
             \E i \in 1..Len(hour_requests'[r[1]]) : hour_requests'[r[1]][i] = r[2]]_vars

\* ---- C26 --------------------------------------------------------------------------
\* the operation of the coroutine has ended and left "async with"
Ended(t) == task[t].pc \in {"idle", "handler", "done"}

\* C26: each of the four operations releases the user's lock when it ends, also
\* when a store call inside it fails: a lock is held only while an operation on
\* its user is inside the locked section; and when the store calls return, every
\* operation that waits for a lock or holds one comes to its end.
C26_LocksReleasedAndAcquired ==
  /\ [](\A u \in Users :
          locks[LockKey(u)].locked =>
            \E t \in Tasks : InLock(t) /\ task[t].uid = u)
  /\ \A t \in Tasks : (task[t].pc = "wait_lock") ~> (task[t].pc # "wait_lock")
  /\ \A t \in Tasks : (task[t].pc = "wait_lock" \/ InLock(t)) ~> Ended(t)

\* an operation has ended on a failed store call and the operation that waited
\* behind it is the next to take the lock
C26_Witness ==
  \E t1, t2 \in Tasks :
    /\ task[t1].pc = "done" /\ task[t1].result = Raised
    /\ task[t1].op \in {"reset", "check", "stats"}
    /\ task[t2].pc = "wait_lock" /\ task[t2].uid = task[t1].uid
    /\ ~locks[LockKey(task[t2].uid)].locked
    /\ Head(locks[LockKey(task[t2].uid)].waiters) = t2

\* ---- C27 --------------------------------------------------------------------------
\* the window that a reason of rejection speaks of
WindowOf(limit_type) ==
  IF limit_type = "per minute" THEN MinuteWindow ELSE HourWindow

OperationStep(t) ==
  /\ task'[t] # task[t]
  /\ task[t].pc \in {"idle", "wait_lock", "load", "cleanup_db", "insert", "delete"}
  /\ task'[t].pc # "idle"

RowsOf(rows, u) == {r \in rows : r[1] = u}

\* C28: no step of an operation on one user (check_rate_limit, record_request,
\* get_user_stats, reset_user_limits) changes the minute sequence, the hour
\* sequence or the durable records of any other user.
C28_OtherUsersUntouched ==
  [][\A t \in Tasks :
       OperationStep(t) =>
         \A v \in Users \ {task'[t].uid} :
           /\ minute_requests'[v] = minute_requests[v]
           /\ hour_requests'[v] = hour_requests[v]
           /\ RowsOf(db', v) = RowsOf(db, v)]_vars

\* a wrapped command of one user went through load, cleanup and recording at
\* a time when another user had a request in the cache and a record in the
\* store that were both more than an hour old
C28_Witness ==
  \E t \in Tasks, v \in Users :
    LET u == task[t].uid
    IN  /\ v # u
        /\ task[t].cmd = "wrapped" /\ task[t].pc = "handler"
        /\ Len(hour_requests[u]) = 1
        /\ RowsOf(db, u) = {<<u, hour_requests[u][1]>>}
        /\ hour_requests[v] # <<>>
        /\ hour_requests[v][1] <= hour_requests[u][1] - HourWindow
        /\ <<v, hour_requests[v][1]>> \in db
====
